---------------------------- MODULE Spec2Model ----------------------------
(***************************************************************************)
(* Model of the X-server capture path of xcap:                             *)
(*   src/src/linux/xorg_capture.rs  pixel decoders, xorg_capture,          *)
(*                                  xorg_capture_rgb                       *)
(*   src/src/linux/capture.rs       capture_region, capture_region_rgb,    *)
(*                                  capture_window, capture_window_rgb     *)
(*   src/examples/monitor_region_capture_rgb.rs  main                      *)
(*                                                                         *)
(* Machine integers keep their width.  TLC's integers are 32-bit signed,   *)
(* so a u32 is a little-endian sequence of four base-256 digits and the    *)
(* products of u32 values are computed digit by digit.                     *)
(***************************************************************************)
EXTENDS Integers, Sequences, FiniteSets, TLC

VARIABLES
    wayland,          \* wayland_detect(): the active-display-server signal
    overflow_checks,  \* build profile: TRUE panics on integer overflow, FALSE wraps
    server,           \* X server: depth of the drawable, pixmap formats, bit order, contents
    pc,               \* position of the (single, synchronous) capture call
    op,               \* the public operation being executed
    args,             \* its arguments
    conns,            \* server connections currently open
    opened,           \* connections opened by the current call
    reqs,             \* GetImage requests sent by the current call
    handed,           \* rectangle handed to the selected transport by the dispatcher
    bytes,            \* get_image_reply.data()
    depth,            \* get_image_reply.depth()
    bits_per_pixel,   \* pixmap_format.bits_per_pixel()
    get_pixel,        \* decode routine selected by the match on depth
    out,              \* the rgba / rgb vector
    lx, ly,           \* loop counters of the decode loop
    result,           \* what the call returned
    script,           \* the two captures of one rectangle still to be made, RGB first
    done,             \* the results of those already made
    px,               \* input of a pixel decoder applied on its own
    pxOut             \* its output

envVars   == <<wayland, overflow_checks, server>>
callVars  == <<pc, op, args, conns, opened, reqs, handed, bytes, depth,
               bits_per_pixel, get_pixel, out, lx, ly, result>>
mainVars  == <<script, done>>
pixelVars == <<px, pxOut>>
vars      == <<envVars, callVars, mainVars, pixelVars>>

-----------------------------------------------------------------------------
(* Bounds of the model.                                                    *)

\* Small rectangles have width and height in 0..MaxDim; they are decoded in full.
MaxDim == 2

-----------------------------------------------------------------------------
(* Bit operations on naturals.                                             *)

RECURSIVE BitAnd(_, _)
BitAnd(a, b) ==
    IF a = 0 \/ b = 0 THEN 0
    ELSE (a % 2) * (b % 2) + 2 * BitAnd(a \div 2, b \div 2)

RECURSIVE BitOr(_, _)
BitOr(a, b) ==
    IF a = 0 THEN b
    ELSE IF b = 0 THEN a
    ELSE (IF a % 2 = 1 \/ b % 2 = 1 THEN 1 ELSE 0) + 2 * BitOr(a \div 2, b \div 2)

Shr(a, n) == a \div (2 ^ n)

-----------------------------------------------------------------------------
(* Unbounded naturals as little-endian base-256 digit sequences; u32 is    *)
(* four digits.                                                            *)

RECURSIVE ToDigits(_, _)
ToDigits(n, w) == IF w = 0 THEN <<>> ELSE <<n % 256>> \o ToDigits(n \div 256, w - 1)

U32(n) == ToDigits(n, 4)

Digit(d, i) == IF i <= Len(d) THEN d[i] ELSE 0

MaxLen(a, b) == IF Len(a) >= Len(b) THEN Len(a) ELSE Len(b)

BigEq(a, b) == \A i \in 1..MaxLen(a, b) : Digit(a, i) = Digit(b, i)

RECURSIVE BigLtFrom(_, _, _)
BigLtFrom(a, b, i) ==
    IF i = 0 THEN FALSE
    ELSE IF Digit(a, i) # Digit(b, i) THEN Digit(a, i) < Digit(b, i)
    ELSE BigLtFrom(a, b, i - 1)

BigLt(a, b) == BigLtFrom(a, b, MaxLen(a, b))

IsZero(d) == \A i \in 1..Len(d) : d[i] = 0

\* The digits above the first w: nonzero when the value does not fit in w digits.
Overflows(d, w) == \E i \in (w + 1)..Len(d) : d[i] # 0

Trunc(d, w) == [i \in 1..w |-> Digit(d, i)]

RECURSIVE AddFrom(_, _, _, _, _)
AddFrom(a, b, i, carry, w) ==
    IF i > w THEN <<>>
    ELSE LET t == Digit(a, i) + Digit(b, i) + carry
         IN  <<t % 256>> \o AddFrom(a, b, i + 1, t \div 256, w)

BigAdd(a, b) == AddFrom(a, b, 1, 0, MaxLen(a, b) + 1)

RECURSIVE ColSum(_, _, _, _)
ColSum(a, b, p, i) ==
    IF i > p THEN 0
    ELSE Digit(a, i) * Digit(b, p + 1 - i) + ColSum(a, b, p, i + 1)

RECURSIVE MulFrom(_, _, _, _, _)
MulFrom(a, b, p, carry, w) ==
    IF p > w THEN <<>>
    ELSE LET t == ColSum(a, b, p, 1) + carry
         IN  <<t % 256>> \o MulFrom(a, b, p + 1, t \div 256, w)

BigMul(a, b) == MulFrom(a, b, 1, 0, Len(a) + Len(b))

\* d / 8
BigShr3(d) == [i \in 1..Len(d) |-> (d[i] \div 8) + (Digit(d, i + 1) % 8) * 32]

\* A digit sequence below 2^31 as a TLC integer.
Fits(d) == ~Overflows(d, 4) /\ Digit(d, 4) < 128

ToNat(d) == Digit(d, 1) + 256 * Digit(d, 2) + 65536 * Digit(d, 3) + 16777216 * Digit(d, 4)

-----------------------------------------------------------------------------
(* Rust arithmetic: an overflowing operation panics when the build checks  *)
(* overflow and wraps otherwise; an out-of-range slice index panics.       *)

Ok(v)      == [ok |-> TRUE, v |-> v, why |-> "none"]
Panic(why) == [ok |-> FALSE, v |-> <<>>, why |-> why]

\* a * b on u32
MulU32(a, b, checks) ==
    LET p == BigMul(a, b)
    IN  IF checks /\ Overflows(p, 4) THEN Panic("overflow") ELSE Ok(Trunc(p, 4))

\* a + b on u32
AddU32(a, b, checks) ==
    LET s == BigAdd(a, b)
    IN  IF checks /\ Overflows(s, 4) THEN Panic("overflow") ELSE Ok(Trunc(s, 4))

\* a * b on an unsigned type of the given number of bits (u8, u16), a and b small
MulSmall(a, b, bits, checks) ==
    IF checks /\ a * b >= 2 ^ bits THEN Panic("overflow") ELSE Ok((a * b) % (2 ^ bits))

\* width as u16, height as u16
AsU16(d) == Digit(d, 1) + 256 * Digit(d, 2)

\* x as i16 for an i32 x
AsI16(n) == ((n + 32768) % 65536) - 32768

\* bytes[index + k], index a usize
At(bs, index, k) ==
    LET j == BigAdd(index, U32(k))
    IN  IF Fits(j) /\ ToNat(j) < Len(bs) THEN Ok(bs[ToNat(j) + 1]) ELSE Panic("index")

-----------------------------------------------------------------------------
(* Pixel Format Decoder.                                                   *)

LsbFirst == "LsbFirst"
MsbFirst == "MsbFirst"

\* The `?`-like sequencing of a computation that may panic: k on m's value.
Bind(m, k(_)) == IF m.ok THEN k(m.v) ELSE m

\* (y * width + x) * scale on u32
Scaled(x, y, width, scale, checks) ==
    Bind(MulU32(y, width, checks),
         LAMBDA yw : Bind(AddU32(yw, x, checks),
                          LAMBDA n : MulU32(n, U32(scale), checks)))

\* ((y * width + x) * bits_per_pixel / 8) as usize
PixelIndex(x, y, width, bpp, checks) ==
    Bind(Scaled(x, y, width, bpp, checks), LAMBDA n : Ok(BigShr3(n)))

\* Scale8 with the multipliers rounded up (86 for 255/3, 37 for 255/7).
Scale8RoundedUp(pixel, checks) ==
    Bind(MulSmall(Shr(pixel, 6), 86, 8, checks), LAMBDA r :
    Bind(MulSmall(BitAnd(Shr(pixel, 3), 7), 37, 8, checks), LAMBDA g :
    Bind(MulSmall(BitAnd(pixel, 3), 86, 8, checks), LAMBDA b :
         Ok(<<BitAnd(r, 255), BitAnd(g, 255), BitAnd(b, 255)>>))))

\* The scaling of the three fields of an 8-bit pixel.
Scale8(pixel, checks) ==
    Bind(MulSmall(Shr(pixel, 6), 85, 8, checks), LAMBDA r :
    Bind(MulSmall(BitAnd(Shr(pixel, 3), 7), 36, 8, checks), LAMBDA g :
    Bind(MulSmall(BitAnd(pixel, 3), 85, 8, checks), LAMBDA b :
         Ok(<<BitAnd(r, 255), BitAnd(g, 255), BitAnd(b, 255)>>))))

\* The pixel get_pixel8_rgb extracts from the raw byte.
Pixel8(byte, bit_order) ==
    IF bit_order = LsbFirst THEN byte
    ELSE BitOr(BitAnd(byte, 7 * 16), Shr(byte, 4))

get_pixel8_rgb(bs, x, y, width, bpp, bit_order, checks) ==
    Bind(PixelIndex(x, y, width, bpp, checks), LAMBDA index :
    Bind(At(bs, index, 0), LAMBDA b0 :
         Scale8(Pixel8(b0, bit_order), checks)))

\* (r, g, b, 255)
Opaque(rgb) == Ok(<<rgb[1], rgb[2], rgb[3], 255>>)

get_pixel8_rgba(bs, x, y, width, bpp, bit_order, checks) ==
    Bind(get_pixel8_rgb(bs, x, y, width, bpp, bit_order, checks), Opaque)

\* The scaling of the three fields of a 16-bit pixel (u16 arithmetic, then as u8).
Scale16(pixel, checks) ==
    Bind(MulSmall(Shr(pixel, 11), 8, 16, checks), LAMBDA r :
    Bind(MulSmall(BitAnd(Shr(pixel, 5), 63), 4, 16, checks), LAMBDA g :
    Bind(MulSmall(BitAnd(pixel, 31), 8, 16, checks), LAMBDA b :
         Ok(<<BitAnd(r % 256, 255), BitAnd(g % 256, 255), BitAnd(b % 256, 255)>>))))

\* The u16 pixel get_pixel16_rgb assembles from two raw bytes.
Pixel16(b0, b1, bit_order) ==
    IF bit_order = LsbFirst THEN BitOr(b0, (b1 * 256) % 65536)
    ELSE BitOr((b0 * 256) % 65536, b1)

get_pixel16_rgb(bs, x, y, width, bpp, bit_order, checks) ==
    Bind(PixelIndex(x, y, width, bpp, checks), LAMBDA index :
    Bind(At(bs, index, 0), LAMBDA b0 :
    Bind(At(bs, index, 1), LAMBDA b1 :
         Scale16(Pixel16(b0, b1, bit_order), checks))))

get_pixel16_rgba(bs, x, y, width, bpp, bit_order, checks) ==
    Bind(get_pixel16_rgb(bs, x, y, width, bpp, bit_order, checks), Opaque)

\* get_pixel24_32_rgba reading red, green, blue in that order whatever the bit order.
get_pixel24_32_rgba_one_order(bs, x, y, width, bpp, bit_order, checks) ==
    Bind(PixelIndex(x, y, width, bpp, checks), LAMBDA index :
         Bind(At(bs, index, 0), LAMBDA b0 :
         Bind(At(bs, index, 1), LAMBDA b1 :
         Bind(At(bs, index, 2), LAMBDA b2 : Ok(<<b0, b1, b2, 255>>)))))

get_pixel24_32_rgba(bs, x, y, width, bpp, bit_order, checks) ==
    Bind(PixelIndex(x, y, width, bpp, checks), LAMBDA index :
         IF bit_order = LsbFirst
         THEN Bind(At(bs, index, 2), LAMBDA b2 :
              Bind(At(bs, index, 1), LAMBDA b1 :
              Bind(At(bs, index, 0), LAMBDA b0 : Ok(<<b2, b1, b0, 255>>))))
         ELSE Bind(At(bs, index, 0), LAMBDA b0 :
              Bind(At(bs, index, 1), LAMBDA b1 :
              Bind(At(bs, index, 2), LAMBDA b2 : Ok(<<b0, b1, b2, 255>>)))))

get_pixel24_32_rgb(bs, x, y, width, bpp, bit_order, checks) ==
    Bind(PixelIndex(x, y, width, bpp, checks), LAMBDA index :
         IF bit_order = LsbFirst
         THEN Bind(At(bs, index, 2), LAMBDA b2 :
              Bind(At(bs, index, 1), LAMBDA b1 :
              Bind(At(bs, index, 0), LAMBDA b0 : Ok(<<b2, b1, b0>>))))
         ELSE Bind(At(bs, index, 0), LAMBDA b0 :
              Bind(At(bs, index, 1), LAMBDA b1 :
              Bind(At(bs, index, 2), LAMBDA b2 : Ok(<<b0, b1, b2>>)))))

\* A call through the function pointer chosen by the match on depth.
CallGetPixel(f, bs, x, y, width, bpp, bit_order, checks) ==
    CASE f = "get_pixel8_rgba"     -> get_pixel8_rgba(bs, x, y, width, bpp, bit_order, checks)
      [] f = "get_pixel16_rgba"    -> get_pixel16_rgba(bs, x, y, width, bpp, bit_order, checks)
      [] f = "get_pixel24_32_rgba" -> get_pixel24_32_rgba(bs, x, y, width, bpp, bit_order, checks)
      [] f = "get_pixel8_rgb"      -> get_pixel8_rgb(bs, x, y, width, bpp, bit_order, checks)
      [] f = "get_pixel16_rgb"     -> get_pixel16_rgb(bs, x, y, width, bpp, bit_order, checks)
      [] f = "get_pixel24_32_rgb"  -> get_pixel24_32_rgb(bs, x, y, width, bpp, bit_order, checks)

-----------------------------------------------------------------------------
(* The X server and the geometry providers, as seen by the capture call.   *)

\* setup.pixmap_formats(): entries depth -> bits per pixel, in the server's order.
FormatsFull   == << [depth |-> 1,  bpp |-> 1],  [depth |-> 8,  bpp |-> 8],
                    [depth |-> 16, bpp |-> 16], [depth |-> 24, bpp |-> 32],
                    [depth |-> 32, bpp |-> 32] >>
FormatsPacked == << [depth |-> 24, bpp |-> 24], [depth |-> 32, bpp |-> 32],
                    [depth |-> 8,  bpp |-> 8] >>

FormatTables == {FormatsFull, FormatsPacked}

\* Depths a reply may report.
Depths == {1, 8, 16, 24, 30, 32}

\* Contents of the drawable, repeated over the reply's data.
Contents == <<227, 128, 18, 255, 7, 100, 32>>

Servers ==
    [depth : Depths, formats : FormatTables, bit_order : {LsbFirst, MsbFirst},
     pat : {Contents}]

\* The lookup falling back to the table's first entry when no depth matches.
FindPixmapFormatOrFirst(formats, d) ==
    IF \E i \in 1..Len(formats) : formats[i].depth = d
    THEN CHOOSE i \in 1..Len(formats) :
             /\ formats[i].depth = d
             /\ \A j \in 1..(i - 1) : formats[j].depth # d
    ELSE 1

\* Index of the first entry of the table whose depth is d, 0 when there is none:
\* setup.pixmap_formats().iter().find(|item| item.depth() == depth)
FindPixmapFormat(formats, d) ==
    IF \E i \in 1..Len(formats) : formats[i].depth = d
    THEN CHOOSE i \in 1..Len(formats) :
             /\ formats[i].depth = d
             /\ \A j \in 1..(i - 1) : formats[j].depth # d
    ELSE 0

\* Bits per pixel the server stores the drawable with.
ServerBpp(srv) ==
    LET i == FindPixmapFormat(srv.formats, srv.depth)
    IN  IF i = 0 THEN 32 ELSE srv.formats[i].bpp

\* The data of a GetImage reply for a w x h rectangle: w * h pixels of the
\* server's bits per pixel, rows not padded.
ReplyData(srv, w, h) ==
    [i \in 1..((w * h * ServerBpp(srv)) \div 8) |->
        srv.pat[((i - 1) % Len(srv.pat)) + 1]]

-----------------------------------------------------------------------------
(* Arguments of the capture operations.                                    *)

SmallDims == 0..MaxDim

\* Extents at which the 16-bit request fields or the 32-bit products wrap.
BigExtents == { <<65537, 1>>, <<1, 65537>>, <<65536, 1>>, <<65536, 16384>>,
                <<65536, 65536>>, <<65537, 65537>> }

Extents == (SmallDims \X SmallDims) \cup BigExtents

\* Monitors: their origin on the desktop.
Monitors == { [x |-> 0, y |-> 0], [x |-> 1920, y |-> 0] }
NoMonitor == [x |-> 0, y |-> 0]

\* Caller's origin, relative to the monitor.
Offsets == { <<10, 20>> }

RegionArgs ==
    { [mon |-> m, x |-> o[1], y |-> o[2], width |-> U32(e[1]), height |-> U32(e[2])] :
        m \in Monitors, o \in Offsets, e \in Extents }

\* A window: impl_window.width() and impl_window.height().
WindowArgs ==
    { [mon |-> NoMonitor, x |-> 0, y |-> 0, width |-> U32(e[1]), height |-> U32(e[2])] :
        e \in Extents }

NoArgs == [mon |-> NoMonitor, x |-> 0, y |-> 0, width |-> U32(0), height |-> U32(0)]

RegionOps == {"capture_region", "capture_region_rgb"}
WindowOps == {"capture_window", "capture_window_rgb"}

\* The Protocol-A function an operation ends in, and its channel count.
XorgFn(o) ==
    IF o \in {"capture_region", "capture_window", "xorg_capture"}
    THEN "xorg_capture" ELSE "xorg_capture_rgb"

Channels(o) == IF XorgFn(o) = "xorg_capture" THEN 4 ELSE 3

-----------------------------------------------------------------------------
(* Results.                                                                *)

NoImage  == [width |-> U32(0), height |-> U32(0), len |-> U32(0), data |-> <<>>]
NoResult == [kind |-> "None", err |-> "", replied |-> FALSE, image |-> NoImage]

RetOk(img)     == [kind |-> "Ok", err |-> "", replied |-> TRUE, image |-> img]
RetErr(e, rep) == [kind |-> "Err", err |-> e, replied |-> rep, image |-> NoImage]
RetPanic(e)    == [kind |-> "Panic", err |-> e, replied |-> TRUE, image |-> NoImage]

NoVec == [len |-> U32(0), data |-> <<>>]

-----------------------------------------------------------------------------
(* Frame Assembler: the output vector and the body of the decode loop.     *)

\* vec![0u8; (width * height * channels) as usize]
AllocLen(width, height, channels, checks) ==
    Bind(MulU32(width, height, checks), LAMBDA n : MulU32(n, U32(channels), checks))

RECURSIVE Zeros(_)
Zeros(n) == IF n <= 0 THEN <<>> ELSE <<0>> \o Zeros(n - 1)

\* The written prefix of a vector of zeros after cell i (from 0) is set to val.
Put(data, i, val) ==
    IF i + 1 <= Len(data) THEN [data EXCEPT ![i + 1] = val]
    ELSE data \o Zeros(i - Len(data)) \o <<val>>

Get(data, i) == IF i + 1 <= Len(data) THEN data[i + 1] ELSE 0

\* rgba[index + k] = vals[k + 1] for k = from .. Len(vals) - 1, in order
RECURSIVE WriteFrom(_, _, _, _)
WriteFrom(vec, index, vals, k) ==
    IF k >= Len(vals) THEN Ok(vec)
    ELSE LET j == BigAdd(index, U32(k))
         IN  IF BigLt(j, vec.len)
             THEN WriteFrom([vec EXCEPT !.data = Put(vec.data, ToNat(j), vals[k + 1])],
                            index, vals, k + 1)
             ELSE Panic("index")

\* A panic of the decode routine is a failed read of the raw buffer or an overflow.
ReadPanic(p) == IF p.ok \/ p.why # "index" THEN p ELSE Panic("read")

\* One iteration of the inner loop, for pixel (x, y).
LoopBody(vec, f, bs, x, y, width, bpp, bit_order, channels, checks) ==
    Bind(Scaled(x, y, width, channels, checks), LAMBDA index :
    Bind(ReadPanic(CallGetPixel(f, bs, x, y, width, bpp, bit_order, checks)), LAMBDA p :
         WriteFrom(vec, index, p, 0)))

\* ImageBuffer::from_raw(width, height, buf): Some when the buffer holds at
\* least width * height * channels bytes, the product taken without wrapping.
FromRawFits(width, height, channels, vec) ==
    LET need == BigMul(BigMul(U32(channels), width), height)
    IN  ~Overflows(need, 8) /\ ~BigLt(vec.len, need)

-----------------------------------------------------------------------------
(* The capture call.                                                       *)

NoHand == [transport |-> "none", x |-> 0, y |-> 0, width |-> U32(0), height |-> U32(0)]

\* width as i32, height as i32
AsI32(d) ==
    IF Digit(d, 4) < 128 THEN ToNat(Trunc(d, 4))
    ELSE (ToNat([Trunc(d, 4) EXCEPT ![4] = @ - 128]) - 2147483647) - 1

\* The connection closed on the successful exit only.
DropConnOnSuccess(n, kind) == IF kind = "Ok" THEN n - 1 ELSE n

\* The connection count once `conn` has gone out of scope on an exit of the given kind.
DropConn(n, kind) == n - 1

\* The locals of a call that has not started or has returned.
ResetLocals ==
    /\ bytes' = <<>>
    /\ depth' = 0
    /\ bits_per_pixel' = 0
    /\ get_pixel' = "none"
    /\ out' = NoVec
    /\ lx' = 0
    /\ ly' = 0

\* Return res to the caller; held says whether `conn` is alive at the return.
Leave(res, held) ==
    /\ pc' = "returned"
    /\ result' = res
    /\ conns' = IF held THEN DropConn(conns, res.kind) ELSE conns
    /\ done' = IF script.active THEN Append(done, [op |-> op, result |-> res]) ELSE done
    /\ ResetLocals
    /\ UNCHANGED <<envVars, op, args, opened, reqs, handed, script, pixelVars>>

\* capture_region / capture_region_rgb up to the call of the transport.
CaptureRegion(o, a) ==
    /\ pc = "idle"
    /\ ~script.active
    /\ op' = o
    /\ args' = a
    /\ opened' = 0
    /\ reqs' = <<>>
    /\ conns' = conns
    /\ ResetLocals
    /\ UNCHANGED <<envVars, mainVars, pixelVars>>
    /\ \E monitor_info_ok \in BOOLEAN, transport_ok \in BOOLEAN :
         IF ~monitor_info_ok
         THEN /\ handed' = NoHand
              /\ pc' = "returned"
              /\ result' = RetErr("get_monitor_info_buf", FALSE)
         ELSE IF wayland
         THEN /\ handed' = [transport |-> "B", x |-> a.x, y |-> a.y,
                            width |-> AsI32(a.width), height |-> AsI32(a.height)]
              /\ pc' = "returned"
              /\ result' = IF transport_ok
                           THEN [RetOk([NoImage EXCEPT !.width = a.width,
                                                       !.height = a.height])
                                 EXCEPT !.replied = FALSE]
                           ELSE RetErr("wayland_capture", FALSE)
         ELSE IF ~transport_ok
         THEN /\ handed' = NoHand
              /\ pc' = "returned"
              /\ result' = RetErr("get_current_screen_buf", FALSE)
         ELSE /\ handed' = [transport |-> "A", x |-> a.mon.x + a.x, y |-> a.mon.y + a.y,
                            width |-> a.width, height |-> a.height]
              /\ pc' = "connect"
              /\ result' = NoResult

\* capture_window / capture_window_rgb up to the call of xorg_capture(_rgb).
CaptureWindow(o, a) ==
    /\ pc = "idle"
    /\ ~script.active
    /\ op' = o
    /\ args' = a
    /\ opened' = 0
    /\ reqs' = <<>>
    /\ conns' = conns
    /\ ResetLocals
    /\ UNCHANGED <<envVars, mainVars, pixelVars>>
    /\ \E geometry_ok \in BOOLEAN :
         IF ~geometry_ok
         THEN /\ handed' = NoHand
              /\ pc' = "returned"
              /\ result' = RetErr("impl_window", FALSE)
         ELSE /\ handed' = [transport |-> "A", x |-> 0, y |-> 0,
                            width |-> a.width, height |-> a.height]
              /\ pc' = "connect"
              /\ result' = NoResult

\* The caller takes the result; the call's frame is gone.
Return ==
    /\ pc = "returned"
    /\ pc' = "idle"
    /\ op' = "none"
    /\ args' = IF script.active THEN args ELSE NoArgs
    /\ opened' = 0
    /\ reqs' = <<>>
    /\ handed' = NoHand
    /\ result' = NoResult
    /\ UNCHANGED <<envVars, conns, bytes, depth, bits_per_pixel, get_pixel, out, lx, ly,
                   mainVars, pixelVars>>

\* xorg_capture_rgb, then xorg_capture, called on the same rectangle.
CapturePair ==
    /\ pc = "idle"
    /\ script.active
    /\ script.todo # <<>>
    /\ op' = Head(script.todo)
    /\ script' = [script EXCEPT !.todo = Tail(@)]
    /\ handed' = [transport |-> "A", x |-> args.x, y |-> args.y,
                  width |-> args.width, height |-> args.height]
    /\ opened' = 0
    /\ reqs' = <<>>
    /\ pc' = "connect"
    /\ result' = NoResult
    /\ conns' = conns
    /\ ResetLocals
    /\ UNCHANGED <<envVars, args, done, pixelVars>>

\* let (conn, _) = Connection::connect(None)?;
Connect ==
    /\ pc = "connect"
    /\ \E ok \in BOOLEAN :
         IF ok
         THEN /\ conns' = conns + 1
              /\ opened' = opened + 1
              /\ pc' = "send"
              /\ UNCHANGED <<envVars, op, args, reqs, handed, bytes, depth, bits_per_pixel,
                             get_pixel, out, lx, ly, result, mainVars, pixelVars>>
         ELSE Leave(RetErr("ConnectionFailure", FALSE), FALSE)

\* conn.send_request(&GetImage { .. })
SendRequest ==
    /\ pc = "send"
    /\ reqs' = Append(reqs, [x |-> AsI16(handed.x), y |-> AsI16(handed.y),
                             width |-> AsU16(handed.width),
                             height |-> AsU16(handed.height)])
    /\ pc' = "wait"
    /\ UNCHANGED <<envVars, op, args, conns, opened, handed, bytes, depth, bits_per_pixel,
                   get_pixel, out, lx, ly, result, mainVars, pixelVars>>

\* conn.wait_for_reply(get_image_cookie)?, .data(), .depth()
WaitForReply ==
    /\ pc = "wait"
    /\ \E ok \in BOOLEAN :
         IF ok
         THEN /\ bytes' = ReplyData(server, reqs[Len(reqs)].width, reqs[Len(reqs)].height)
              /\ depth' = server.depth
              /\ pc' = "find"
              /\ UNCHANGED <<envVars, op, args, conns, opened, reqs, handed, bits_per_pixel,
                             get_pixel, out, lx, ly, result, mainVars, pixelVars>>
         ELSE Leave(RetErr("RequestFailure", FALSE), TRUE)

\* The lookup of the pixmap format of the reply's depth, and its bits per pixel.
FindFormat ==
    /\ pc = "find"
    /\ LET i == FindPixmapFormat(server.formats, depth)
       IN  IF i # 0
           THEN /\ bits_per_pixel' = server.formats[i].bpp
                /\ pc' = "match"
                /\ UNCHANGED <<envVars, op, args, conns, opened, reqs, handed, bytes, depth,
                               get_pixel, out, lx, ly, result, mainVars, pixelVars>>
           ELSE Leave(RetErr("Not found pixmap format", TRUE), TRUE)

\* The match with a `_` arm that decodes as 24/32 bits instead of failing.
SelectGetPixelBestEffort(d, fn) ==
    IF d = 8 THEN (IF fn = "xorg_capture" THEN "get_pixel8_rgba" ELSE "get_pixel8_rgb")
    ELSE IF d = 16 THEN (IF fn = "xorg_capture" THEN "get_pixel16_rgba" ELSE "get_pixel16_rgb")
    ELSE (IF fn = "xorg_capture" THEN "get_pixel24_32_rgba" ELSE "get_pixel24_32_rgb")

\* The decode routine the match on depth selects, "none" for the `_` arm.
SelectGetPixel(d, fn) ==
    IF d = 8 THEN (IF fn = "xorg_capture" THEN "get_pixel8_rgba" ELSE "get_pixel8_rgb")
    ELSE IF d = 16 THEN (IF fn = "xorg_capture" THEN "get_pixel16_rgba" ELSE "get_pixel16_rgb")
    ELSE IF d = 24 \/ d = 32
         THEN (IF fn = "xorg_capture" THEN "get_pixel24_32_rgba" ELSE "get_pixel24_32_rgb")
    ELSE "none"

\* let get_pixel_rgba = match depth { .. };
MatchDepth ==
    /\ pc = "match"
    /\ LET f == SelectGetPixel(depth, XorgFn(op))
       IN  IF f # "none"
           THEN /\ get_pixel' = f
                /\ pc' = "alloc"
                /\ UNCHANGED <<envVars, op, args, conns, opened, reqs, handed, bytes, depth,
                               bits_per_pixel, out, lx, ly, result, mainVars, pixelVars>>
           ELSE Leave(RetErr("Unsupported depth", TRUE), TRUE)

\* let mut rgba = vec![0u8; (width * height * 4) as usize];
Alloc ==
    /\ pc = "alloc"
    /\ LET n == AllocLen(handed.width, handed.height, Channels(op), overflow_checks)
       IN  IF n.ok
           THEN /\ out' = [len |-> n.v, data |-> <<>>]
                /\ lx' = 0
                /\ ly' = 0
                /\ pc' = "loop"
                /\ UNCHANGED <<envVars, op, args, conns, opened, reqs, handed, bytes, depth,
                               bits_per_pixel, get_pixel, result, mainVars, pixelVars>>
           ELSE Leave(RetPanic("overflow"), TRUE)

\* for y in 0..height { for x in 0..width { .. } } has no iteration left
LoopDone == IsZero(handed.width) \/ ~BigLt(U32(ly), handed.height)

\* One iteration of the decode loop.
DecodePixel ==
    /\ pc = "loop"
    /\ ~LoopDone
    /\ LET r == LoopBody(out, get_pixel, bytes, U32(lx), U32(ly), handed.width,
                         bits_per_pixel, server.bit_order, Channels(op), overflow_checks)
       IN  IF r.ok
           THEN /\ out' = r.v
                /\ IF BigLt(U32(lx + 1), handed.width)
                   THEN lx' = lx + 1 /\ ly' = ly
                   ELSE lx' = 0 /\ ly' = ly + 1
                /\ UNCHANGED <<envVars, pc, op, args, conns, opened, reqs, handed, bytes,
                               depth, bits_per_pixel, get_pixel, result, mainVars,
                               pixelVars>>
           ELSE Leave(RetPanic(r.why), TRUE)

\* RgbaImage::from_raw(width, height, rgba).ok_or_else(..)
FromRaw ==
    /\ pc = "loop"
    /\ LoopDone
    /\ IF FromRawFits(handed.width, handed.height, Channels(op), out)
       THEN Leave(RetOk([width |-> handed.width, height |-> handed.height,
                         len |-> out.len, data |-> out.data]), TRUE)
       ELSE Leave(RetErr("from_raw failed", TRUE), TRUE)

XorgSteps ==
    \/ Connect
    \/ SendRequest
    \/ WaitForReply
    \/ FindFormat
    \/ MatchDepth
    \/ Alloc
    \/ DecodePixel
    \/ FromRaw

-----------------------------------------------------------------------------
(* Specifications.                                                         *)

NoPx == [depth |-> 0, bpp |-> 0, bit_order |-> LsbFirst, rgb |-> <<>>, bytes |-> <<>>]
NoPxOut == [fn |-> "none", r |-> Panic("none")]

InitCall ==
    /\ pc = "idle"
    /\ op = "none"
    /\ args = NoArgs
    /\ conns = 0
    /\ opened = 0
    /\ reqs = <<>>
    /\ handed = NoHand
    /\ bytes = <<>>
    /\ depth = 0
    /\ bits_per_pixel = 0
    /\ get_pixel = "none"
    /\ out = NoVec
    /\ lx = 0
    /\ ly = 0
    /\ result = NoResult

\* Any sequence of capture_region, capture_region_rgb, capture_window and
\* capture_window_rgb calls in a session.
Init ==
    /\ wayland \in BOOLEAN
    /\ overflow_checks \in BOOLEAN
    /\ server \in Servers
    /\ InitCall
    /\ script = [active |-> FALSE, todo |-> <<>>]
    /\ done = <<>>
    /\ px = NoPx
    /\ pxOut = NoPxOut

Next ==
    \/ \E o \in RegionOps, a \in RegionArgs : CaptureRegion(o, a)
    \/ \E o \in WindowOps, a \in WindowArgs : CaptureWindow(o, a)
    \/ XorgSteps
    \/ Return

Spec == Init /\ [][Next]_vars

\* xorg_capture_rgb and xorg_capture applied, one after the other, to the same
\* server state and the same rectangle.
PairOps == <<"xorg_capture_rgb", "xorg_capture">>

InitPair ==
    /\ wayland = FALSE
    /\ overflow_checks \in BOOLEAN
    /\ server \in Servers
    /\ pc = "idle"
    /\ op = "none"
    /\ args \in WindowArgs
    /\ conns = 0
    /\ opened = 0
    /\ reqs = <<>>
    /\ handed = NoHand
    /\ bytes = <<>>
    /\ depth = 0
    /\ bits_per_pixel = 0
    /\ get_pixel = "none"
    /\ out = NoVec
    /\ lx = 0
    /\ ly = 0
    /\ result = NoResult
    /\ script = [active |-> TRUE, todo |-> PairOps]
    /\ done = <<>>
    /\ px = NoPx
    /\ pxOut = NoPxOut

NextPair ==
    \/ CapturePair
    \/ XorgSteps
    \/ Return

SpecPair == InitPair /\ [][NextPair]_vars

-----------------------------------------------------------------------------
(* The pixel decoders applied on their own.                                *)

\* The session the decoder specifications leave untouched.
InitNoSession ==
    /\ wayland = FALSE
    /\ server = [depth |-> 8, formats |-> FormatsFull, bit_order |-> LsbFirst,
                 pat |-> Contents]
    /\ InitCall
    /\ script = [active |-> FALSE, todo |-> <<>>]
    /\ done = <<>>

\* Depth 8: every raw byte, both orders, both builds.
InitDecode8 ==
    /\ InitNoSession
    /\ overflow_checks \in BOOLEAN
    /\ \E byte \in 0..255, order \in {LsbFirst, MsbFirst} :
         px = [depth |-> 8, bpp |-> 8, bit_order |-> order, rgb |-> <<>>,
               bytes |-> <<byte>>]
    /\ pxOut = NoPxOut

Decode8Rgb ==
    /\ pxOut.fn = "none"
    /\ pxOut' = [fn |-> "get_pixel8_rgb",
                 r  |-> get_pixel8_rgb(px.bytes, U32(0), U32(0), U32(1), px.bpp,
                                       px.bit_order, overflow_checks)]
    /\ UNCHANGED <<envVars, callVars, mainVars, px>>

Decode8Rgba ==
    /\ pxOut.fn = "none"
    /\ pxOut' = [fn |-> "get_pixel8_rgba",
                 r  |-> get_pixel8_rgba(px.bytes, U32(0), U32(0), U32(1), px.bpp,
                                        px.bit_order, overflow_checks)]
    /\ UNCHANGED <<envVars, callVars, mainVars, px>>

NextDecode8 == Decode8Rgb \/ Decode8Rgba

SpecDecode8 == InitDecode8 /\ [][NextDecode8]_vars

\* Channel values packed into a raw pixel and decoded again.
ChannelSamples == {0, 32, 100, 128, 255}

\* Depth and bits per pixel of the layouts the decode rules are written for.
Layouts == { <<8, 8>>, <<16, 16>>, <<24, 24>>, <<24, 32>>, <<32, 32>> }

\* 3-3-2 packed RGB: RRR GGG BB
Pack332(rgb) == (rgb[1] \div 32) * 32 + (rgb[2] \div 32) * 4 + (rgb[3] \div 64)

\* 5-6-5 packed RGB: RRRRR GGGGGG BBBBB
Pack565(rgb) == (rgb[1] \div 8) * 2048 + (rgb[2] \div 4) * 32 + (rgb[3] \div 8)

\* The raw bytes of one pixel of the given depth holding rgb, in the given order.
PackPixelBytes(d, bpp, bit_order, rgb) ==
    IF d = 8 THEN <<Pack332(rgb)>>
    ELSE IF d = 16
         THEN IF bit_order = LsbFirst
              THEN <<Pack565(rgb) % 256, Pack565(rgb) \div 256>>
              ELSE <<Pack565(rgb) \div 256, Pack565(rgb) % 256>>
    ELSE (IF bit_order = LsbFirst THEN <<rgb[3], rgb[2], rgb[1]>>
                                  ELSE <<rgb[1], rgb[2], rgb[3]>>)
         \o (IF bpp = 32 THEN <<0>> ELSE <<>>)

InitRoundTrip ==
    /\ InitNoSession
    /\ overflow_checks \in BOOLEAN
    /\ \E l \in Layouts, order \in {LsbFirst, MsbFirst},
          r \in ChannelSamples, g \in ChannelSamples, b \in ChannelSamples :
         px = [depth |-> l[1], bpp |-> l[2], bit_order |-> order, rgb |-> <<r, g, b>>,
               bytes |-> <<>>]
    /\ pxOut = NoPxOut

PackPixel ==
    /\ px.bytes = <<>>
    /\ px' = [px EXCEPT !.bytes = PackPixelBytes(px.depth, px.bpp, px.bit_order, px.rgb)]
    /\ UNCHANGED <<envVars, callVars, mainVars, pxOut>>

DecodePacked ==
    /\ px.bytes # <<>>
    /\ pxOut.fn = "none"
    /\ pxOut' = [fn |-> SelectGetPixel(px.depth, "xorg_capture_rgb"),
                 r  |-> CallGetPixel(SelectGetPixel(px.depth, "xorg_capture_rgb"),
                                     px.bytes, U32(0), U32(0), U32(1), px.bpp,
                                     px.bit_order, overflow_checks)]
    /\ UNCHANGED <<envVars, callVars, mainVars, px>>

NextRoundTrip == PackPixel \/ DecodePacked

SpecRoundTrip == InitRoundTrip /\ [][NextRoundTrip]_vars

-----------------------------------------------------------------------------
(* Claims.                                                                 *)

Supported == {8, 16, 24, 32}
InXorg    == {"send", "wait", "find", "match", "alloc", "loop"}

\* The server's format table has an entry for the depth of the drawable.
HasEntry == \E i \in 1..Len(server.formats) : server.formats[i].depth = server.depth

C2_ExactLength ==
    (pc = "loop" /\ ~IsZero(handed.width) /\ ~IsZero(handed.height)) =>
        BigEq(out.len, BigMul(BigMul(handed.width, handed.height), U32(Channels(op))))

\* C3: a capture_region / capture_region_rgb call with a zero width or height
\* returns an error, opens no connection and hands no request to a transport.
C3_ZeroExtentFailsEarly ==
    (op \in RegionOps /\ (IsZero(args.width) \/ IsZero(args.height))) =>
        /\ opened = 0
        /\ reqs = <<>>
        /\ handed.transport = "none"
        /\ pc = "returned" => result.kind = "Err"

\* C4: the rectangle capture_region / capture_region_rgb hands to the selected
\* transport, Protocol-A or Protocol-B, has origin monitor origin + (x, y) and
\* the caller's width and height.
C4_TranslatedBeforeBranch ==
    (op \in RegionOps /\ handed.transport # "none") =>
        /\ handed.x = args.mon.x + args.x
        /\ handed.y = args.mon.y + args.y
        /\ handed.transport = "A" =>
             handed.width = args.width /\ handed.height = args.height
        /\ handed.transport = "B" =>
             handed.width = ToNat(args.width) /\ handed.height = ToNat(args.height)

\* C5 as stated: a reply of a depth outside {8, 16, 24, 32} gives UnsupportedDepth,
\* whatever the pixmap format table holds.
C5_AlwaysUnsupportedDepth ==
    (pc = "returned" /\ result.replied /\ server.depth \notin Supported) =>
        (result.kind = "Err" /\ result.err = "Unsupported depth")

\* C5 amended: a reply of a depth outside {8, 16, 24, 32} gives an error and no
\* image, before the output buffer is allocated and before any pixel is decoded:
\* UnsupportedDepth when the pixmap format table has an entry of that depth,
\* PixmapFormatNotFound when it has none.
C5_UnsupportedDepth ==
    /\ (pc = "returned" /\ result.replied /\ server.depth \notin Supported) =>
         /\ result.kind = "Err"
         /\ result.image = NoImage
         /\ result.err = IF HasEntry THEN "Unsupported depth"
                         ELSE "Not found pixmap format"
    /\ pc \in {"alloc", "loop"} => (depth \in Supported /\ get_pixel # "none")
    /\ pc \notin {"alloc", "loop"} => (get_pixel = "none" /\ out = NoVec)

\* C5 witness: a depth-1 reply, whose depth the table lists, was refused.
C5_Witness ==
    /\ pc = "returned"
    /\ server.depth = 1
    /\ HasEntry
    /\ result.err = "Unsupported depth"

\* C6: when the pixmap format table has no entry of the reply's depth the call
\* returns PixmapFormatNotFound and decodes nothing; the bits per pixel in use
\* is always that of an entry of the reply's depth.
C6_PixmapFormatNotFound ==
    /\ (pc = "returned" /\ result.replied /\ ~HasEntry) =>
         /\ result.kind = "Err"
         /\ result.err = "Not found pixmap format"
         /\ result.image = NoImage
    /\ pc \in {"match", "alloc", "loop"} =>
         \E i \in 1..Len(server.formats) :
             /\ server.formats[i].depth = depth
             /\ server.formats[i].bpp = bits_per_pixel
    /\ pc \notin {"match", "alloc", "loop"} => bits_per_pixel = 0

\* C6 witness: a depth-16 reply from a server whose table lists no depth 16.
C6_Witness ==
    /\ pc = "returned"
    /\ server.depth = 16
    /\ ~HasEntry
    /\ result.replied
    /\ result.err = "Not found pixmap format"

\* C7: a Protocol-A call opens at most one connection, holds exactly one from
\* the connect to its exit, and leaves none open on any exit path.
C7_ConnectionScoped ==
    /\ conns = IF pc \in InXorg THEN 1 ELSE 0
    /\ opened <= 1
    /\ pc \in InXorg => opened = 1

\* C7 witness: a call that opened a connection left by a panic, one by each error.
C7_Witness ==
    /\ pc = "returned"
    /\ opened = 1
    /\ conns = 0
    /\ result.kind = "Panic"

Diff(a, b) == IF a >= b THEN a - b ELSE b - a

\* One quantization step of channel c at depth d: 256 / 2^bits.
QuantStep(d, c) ==
    IF d = 8 THEN <<32, 32, 64>>[c]
    ELSE IF d = 16 THEN <<8, 4, 8>>[c]
    ELSE 1

\* C8: a channel triple packed in the layout of its depth (3-3-2, 5-6-5,
\* byte-aligned RGB), stored in either byte order and decoded by the depth's rule
\* comes back within one quantization step per channel at depths 8 and 16 and
\* exactly at depths 24 and 32.
C8_RoundTrip ==
    pxOut.fn # "none" =>
        /\ pxOut.r.ok
        /\ \A c \in 1..3 : Diff(pxOut.r.v[c], px.rgb[c]) < QuantStep(px.depth, c)

\* C9: at depth 8 the pixel is the raw byte (LSB first) or
\* (byte & 0x70) | (byte >> 4) (MSB first); red = (p >> 6) * 85,
\* green = ((p >> 3) & 7) * 36, blue = (p & 3) * 85, each below 256, so no
\* product overflows and the mask changes nothing; 0xE3 LSB first decodes to
\* (255, 144, 255) and (255, 144, 255, 255).
C9_Decode8 ==
    pxOut.fn # "none" =>
        LET byte == px.bytes[1]
            p == IF px.bit_order = LsbFirst THEN byte
                 ELSE ((byte \div 16) % 8) * 16 + (byte \div 16)
            r == (p \div 64) * 85
            g == ((p \div 8) % 8) * 36
            b == (p % 4) * 85
        IN  /\ r <= 255 /\ g <= 255 /\ b <= 255
            /\ pxOut.r.ok
            /\ pxOut.fn = "get_pixel8_rgb"  => pxOut.r.v = <<r, g, b>>
            /\ pxOut.fn = "get_pixel8_rgba" => pxOut.r.v = <<r, g, b, 255>>
            /\ (byte = 227 /\ px.bit_order = LsbFirst) =>
                 (r = 255 /\ g = 144 /\ b = 255)

\* C9 witness: the byte 0xE3, LSB first, decoded by the RGBA variant.
C9_Witness ==
    /\ px.bytes = <<227>>
    /\ px.bit_order = LsbFirst
    /\ pxOut.fn = "get_pixel8_rgba"
    /\ pxOut.r.v = <<255, 144, 255, 255>>

\* Bytes after the first that the decode rule of depth d reads.
ReadSpan(d) == IF d = 8 THEN 0 ELSE IF d = 16 THEN 1 ELSE 2

\* C10: when the reply holds reqW * reqH * bits_per_pixel / 8 bytes for the 16-bit
\* reqW, reqH of the request, every raw-buffer index the decode loop reads is
\* below the raw buffer's length.
C10_ReadsInBounds ==
    (/\ pc = "loop"
     /\ ~LoopDone
     /\ Len(bytes) = (reqs[Len(reqs)].width * reqs[Len(reqs)].height * bits_per_pixel) \div 8) =>
        LET i == PixelIndex(U32(lx), U32(ly), handed.width, bits_per_pixel, overflow_checks)
        IN  i.ok => BigLt(BigAdd(i.v, U32(ReadSpan(depth))), U32(Len(bytes)))

=============================================================================
